---- MODULE Spec2Model ----
(***************************************************************************)
(* Go bindings of jattach: Attach, AttachWithOutput, the convenience      *)
(* wrappers around it and the CGo wrapper CallJattach, run by concurrent   *)
(* goroutines of one process.                                              *)
(*                                                                         *)
(* Each goroutine of Calls performs one invocation.  The process-wide Go   *)
(* variable os.Stdout, the capture pipes, the reader goroutines and the    *)
(* process's file descriptor 1 are the shared state.  The native routine   *)
(* jattach() is C code reached through CGo: its C stdio writes go to file  *)
(* descriptor 1, which the assignment os.Stdout = w does not change.       *)
(***************************************************************************)
EXTENDS Integers, Sequences, FiniteSets, TLC

\* ------------------------------------------------------------- bounds
\* Longest caller argument list drawn as an input.
MaxArgs == 4
\* Most output chunks the target sends in one response.
MaxOut == 1
\* Chunks a pipe holds before a writer blocks.
PipeCap == 1
\* Chunks one fmt.Println of a printing goroutine writes.
MaxPrint == 2

\* The goroutines that call into the package.
Calls == {1, 2}

\* --------------------------------------------------- program constants
Load == "load"
Properties == "properties"
Jcmd == "jcmd"
ThreadDump == "threaddump"
DumpHeap == "dumpheap"
InspectHeap == "inspectheap"
AgentProperties == "agentProperties"
SetFlag == "setflag"
PrintFlag == "printflag"

\* error values (nil, or the message of the fmt.Errorf that built it)
Nil == "nil"
ErrInvalidPID == "invalid PID"
ErrNoCommand == "no command specified"
ErrPipe == "failed to create pipe"
\* "<command> command failed with exit code <code>": the command and the
\* code are kept beside the message
ErrExit == "command failed with exit code"

\* Argument slots of the protocol variant; a longer argument list is an
\* InvalidArgument by the protocol's contract.
MaxArgSlots == 3

\* The native routine's own result value for a local failure.
LocalFailureCode == -1
\* Result codes a target reports.
TargetCodes == {0, 1, 2}
\* Local failures of the native routine: one of those that precede any
\* target response, and the response that ends without a result line.
LocalFailures == {"ConnectFailed", "MalformedResponse"}

\* ------------------------------------------------------------- values
ArgStrs == {"a", "b"}
SeqsUpTo(S, n) == UNION {[1..k -> S] : k \in 0..n}

\* one chunk of bytes, tagged with what produced it and for which call
Chunk(src, i) == <<src, i>>
Chunks == {"cmd", "caller"} \X Calls

\* a stream a *os.File refers to: the original standard output, or the
\* write end of goroutine i's capture pipe
Orig == <<"orig", 0>>
W(i) == <<"w", i>>
Unset == <<"unset", 0>>
NoResult == [output |-> <<>>, exitCode |-> 0, err |-> "pending"]
NoRet == [kind |-> "none", code |-> 0]
NoWres == [output |-> <<>>, err |-> "pending", cmd |-> "", code |-> 0]

VARIABLES
    inv,          \* the caller's input of each goroutine
    pc,           \* position of each calling goroutine
    args,         \* the variadic args slice Attach/AttachWithOutput received
    cmdArgs,      \* the field list built for callJattach
    callRes,      \* (exitCode, err) callJattach returned
    osStdout,     \* the Go variable os.Stdout: Orig, or the write end of i's pipe
    oldStdout,    \* AttachWithOutput's local oldStdout
    wOpen, rOpen, \* whether the write / read end of i's pipe is open
    pipeBuf,      \* bytes in i's pipe
    rpc,          \* position of i's reader goroutine
    rbuf,         \* the reader's bytes.Buffer
    outputChan,   \* the channel of capacity 1
    output,       \* AttachWithOutput's local output
    result,       \* what the call returned to its caller
    fd1,          \* how often each chunk was written to the original standard output
    nativeArgv,   \* argc/argv the native routine was entered with
    nativeOut,    \* output bytes the command produced in the native routine
    nativeRet,    \* how the native routine ended
    printTo,      \* the stream the caller's fmt.Print resolved os.Stdout to
    printQ,       \* bytes of the caller's fmt.Print not yet written
    wres          \* what a convenience wrapper returned to its caller

vars == <<inv, pc, args, cmdArgs, callRes, osStdout, oldStdout, wOpen, rOpen,
          pipeBuf, rpc, rbuf, outputChan, output, result, fd1, nativeArgv,
          nativeOut, nativeRet, printTo, printQ, wres>>

\* the convenience wrappers around AttachWithOutput
WrapperKinds ==
    {"GetThreadDump", "HeapDump", "GetHeapHistogram", "LoadAgent",
     "GetSystemProperties", "GetAgentProperties", "ExecuteJcmd", "SetVMFlag",
     "PrintVMFlag"}
\* the wrappers that return (string, error); the others return error alone
OutputWrappers ==
    {"GetThreadDump", "GetHeapHistogram", "GetSystemProperties",
     "GetAgentProperties", "ExecuteJcmd", "PrintVMFlag"}
CaptureKinds == {"AttachWithOutput"} \cup WrapperKinds
IsCapture(i) == inv[i].kind \in CaptureKinds
Returned(i) == result[i] # NoResult
NativeEntered(i) == nativeArgv[i].argc >= 0

\* ---------------------------------------------- pure parts of the code
\* LoadAgent: args := []string{agentPath, absoluteStr}; options appended
\* when non-empty.
LoadAgentArgs(agentPath, options, absolute) ==
    LET absoluteStr == IF absolute THEN "true" ELSE "false"
        a == <<agentPath, absoluteStr>>
    IN  IF options # "" THEN Append(a, options) ELSE a

\* the Command each wrapper passes to AttachWithOutput
WrapperCmd(kind) ==
    CASE kind = "GetThreadDump" -> ThreadDump
      [] kind = "HeapDump" -> DumpHeap
      [] kind = "GetHeapHistogram" -> InspectHeap
      [] kind = "LoadAgent" -> Load
      [] kind = "GetSystemProperties" -> Properties
      [] kind = "GetAgentProperties" -> AgentProperties
      [] kind = "ExecuteJcmd" -> Jcmd
      [] kind = "SetVMFlag" -> SetFlag
      [] kind = "PrintVMFlag" -> PrintFlag
\* the command name written in each wrapper's "... command failed" message
WrapperErrName(kind) ==
    CASE kind = "GetThreadDump" -> "threaddump"
      [] kind = "HeapDump" -> "dumpheap"
      [] kind = "GetHeapHistogram" -> "inspectheap"
      [] kind = "LoadAgent" -> "load"
      [] kind = "GetSystemProperties" -> "properties"
      [] kind = "GetAgentProperties" -> "agentProperties"
      [] kind = "ExecuteJcmd" -> "jcmd"
      [] kind = "SetVMFlag" -> "setflag"
      [] kind = "PrintVMFlag" -> "printflag"

\* faulty variant: the exit code is not looked at
WrapResultNoCodeCheck(kind, r) ==
    IF r.err # Nil
    THEN [output |-> <<>>, err |-> r.err, cmd |-> "", code |-> 0]
    ELSE [output |-> IF kind \in OutputWrappers THEN r.output ELSE <<>>,
          err |-> Nil, cmd |-> "", code |-> 0]
\* the wrappers' tail: if err != nil { return "", err }; if exitCode != 0
\* { return "", fmt.Errorf(...) }; return output, nil
WrapResult(kind, r) ==
    IF r.err # Nil
    THEN [output |-> <<>>, err |-> r.err, cmd |-> "", code |-> 0]
    ELSE IF r.exitCode # 0
    THEN [output |-> <<>>, err |-> ErrExit, cmd |-> WrapperErrName(kind),
          code |-> r.exitCode]
    ELSE [output |-> IF kind \in OutputWrappers THEN r.output ELSE <<>>,
          err |-> Nil, cmd |-> "", code |-> 0]

\* faulty variant: the command name lands after the arguments
BuildCmdArgsSwapped(cmd, a) == a \o <<cmd>>
\* cmdArgs := append([]string{string(cmd)}, args...)
BuildCmdArgs(cmd, a) == <<cmd>> \o a

\* faulty variant: zero passes the check
PidValidOffByOne(pid) == pid >= 0
\* CallJattach: if pid <= 0 { return 1, error }
PidValid(pid) == pid > 0

\* faulty variant: the length check is missing
HasCommandUnchecked(fields) == TRUE
\* CallJattach: if len(args) == 0 { return 1, error }
HasCommand(fields) == Len(fields) # 0

\* C.CString: the bytes of the Go string followed by the terminating NUL
CString(s) == <<s, 0>>
\* the string C code reads from a char*: the bytes before the NUL
CStr(c) == c[1]
\* argc, argv as CallJattach builds them
CArgs(fields) ==
    [argc |-> Len(fields), argv |-> [k \in 1..Len(fields) |-> CString(fields[k])]]
NoArgv == [argc |-> -1, argv |-> <<>>]

\* faulty variant: a non-zero result of the native routine is turned into an error
CallJattachReturnErr(ret) ==
    [exitCode |-> ret, err |-> IF ret # 0 THEN "jattach failed" ELSE Nil]
\* CallJattach: return int(ret), nil
CallJattachReturn(ret) == [exitCode |-> ret, err |-> Nil]

\* faulty variant: the write end is not closed before the caller waits
AfterCallNoClose(kind) == IF kind \in CaptureKinds THEN "recv" ELSE "ret"
\* where the caller of callJattach continues: AttachWithOutput closes the
\* write end next, Attach returns
AfterCall(kind) == IF kind \in CaptureKinds THEN "closeW" ELSE "ret"

\* what the example callers print after the call returned without error
PrintText(i) ==
    IF inv[i].kind = "Println" THEN [k \in 1..MaxPrint |-> Chunk("caller", i)]
    ELSE IF result[i].exitCode # 0 THEN <<Chunk("caller", i)>>
    ELSE IF inv[i].kind = "AttachWithOutput"
         THEN result[i].output \o <<Chunk("caller", i)>>
         ELSE <<>>

\* ------------------------------------------------------------- inputs
Input(kind, pid, cmd, a, agentPath, options, absolute) ==
    [kind |-> kind, pid |-> pid, cmd |-> cmd, args |-> a,
     agentPath |-> agentPath, options |-> options, absolute |-> absolute]
\* a goroutine of the host program that only prints to os.Stdout
PrintlnInput == Input("Println", 1, "", <<>>, "", "", FALSE)

Pids == {-1, 0, 1, 2}
WideInputs ==
    {Input(k, p, c, a, "", "", FALSE) :
        k \in {"Attach", "AttachWithOutput"}, p \in Pids,
        c \in {Properties, Jcmd}, a \in SeqsUpTo(ArgStrs, MaxArgs)}
    \cup {Input("callJattach", p, "", a, "", "", FALSE) :
            p \in Pids, a \in SeqsUpTo({Properties} \cup ArgStrs, 2)}
    \cup {Input("LoadAgent", p, Load, <<>>, "a", o, b) :
            p \in Pids, o \in {"", "o"}, b \in BOOLEAN}
    \cup {Input(k, p, WrapperCmd(k), <<>>, "", "", FALSE) :
            k \in {"GetThreadDump", "GetHeapHistogram", "GetSystemProperties",
                   "GetAgentProperties"}, p \in Pids}
    \cup {Input(k, p, WrapperCmd(k), <<"a">>, "", "", FALSE) :
            k \in {"HeapDump", "PrintVMFlag"}, p \in Pids}
    \cup {Input("SetVMFlag", p, SetFlag, <<"a", "b">>, "", "", FALSE) : p \in Pids}
    \cup {Input("ExecuteJcmd", p, Jcmd, a, "", "", FALSE) :
            p \in Pids, a \in SeqsUpTo(ArgStrs, 1)}
\* the inputs of two goroutines running concurrently: a capturing call
\* beside another call, for a different process id, or a printing goroutine
CaptureInputs ==
    {Input("AttachWithOutput", p, Properties, <<>>, "", "", FALSE) : p \in {0, 1}}
    \cup {Input("LoadAgent", 1, Load, <<>>, "a", "", TRUE)}
OtherInputs ==
    {Input("AttachWithOutput", 2, Properties, <<>>, "", "", FALSE),
     Input("Attach", 2, Properties, <<>>, "", "", FALSE),
     PrintlnInput}

FirstPc(kind) ==
    CASE kind = "Attach" -> "build"
      [] kind = "AttachWithOutput" -> "pipe"
      [] kind = "LoadAgent" -> "loadagent"
      [] kind = "callJattach" -> "call"
      [] kind = "Println" -> "print"
      [] OTHER -> "pipe"

InitRest ==
    /\ pc = [i \in Calls |-> FirstPc(inv[i].kind)]
    /\ args = [i \in Calls |->
                 IF inv[i].kind \in ({"Attach"} \cup CaptureKinds) \ {"LoadAgent"}
                 THEN inv[i].args ELSE <<>>]
    /\ cmdArgs = [i \in Calls |->
                 IF inv[i].kind = "callJattach" THEN inv[i].args ELSE <<>>]
    /\ callRes = [i \in Calls |-> [exitCode |-> 0, err |-> "pending"]]
    /\ osStdout = Orig
    /\ oldStdout = [i \in Calls |-> Unset]
    /\ wOpen = [i \in Calls |-> FALSE]
    /\ rOpen = [i \in Calls |-> FALSE]
    /\ pipeBuf = [i \in Calls |-> <<>>]
    /\ rpc = [i \in Calls |-> "none"]
    /\ rbuf = [i \in Calls |-> <<>>]
    /\ outputChan = [i \in Calls |-> <<>>]
    /\ output = [i \in Calls |-> <<>>]
    /\ result = [i \in Calls |-> NoResult]
    /\ fd1 = [c \in Chunks |-> 0]
    /\ nativeArgv = [i \in Calls |-> NoArgv]
    /\ nativeOut = [i \in Calls |-> <<>>]
    /\ nativeRet = [i \in Calls |-> NoRet]
    /\ printTo = [i \in Calls |-> Unset]
    /\ printQ = [i \in Calls |-> <<>>]
    /\ wres = [i \in Calls |-> NoWres]

\* goroutines calling concurrently
Init ==
    /\ \E a \in CaptureInputs, b \in OtherInputs :
          inv = [i \in Calls |-> IF i = 1 THEN a ELSE b]
    /\ InitRest
\* one goroutine calling, over the wide input set, beside printing goroutines
InitSeq ==
    /\ \E a \in WideInputs : inv = [i \in Calls |-> IF i = 1 THEN a ELSE PrintlnInput]
    /\ InitRest

\* ------------------------------------------------------------ actions
\* LoadAgent builds its argument list and calls AttachWithOutput(pid, Load, args...)
LoadAgent(i) ==
    /\ pc[i] = "loadagent"
    /\ args' = [args EXCEPT ![i] =
                  LoadAgentArgs(inv[i].agentPath, inv[i].options, inv[i].absolute)]
    /\ pc' = [pc EXCEPT ![i] = "pipe"]
    /\ UNCHANGED <<wres, inv, cmdArgs, callRes, osStdout, oldStdout, wOpen, rOpen,
                   pipeBuf, rpc, rbuf, outputChan, output, result, fd1,
                   nativeArgv, nativeOut, nativeRet, printTo, printQ>>

\* r, w, err := os.Pipe(); on error return "", 1, "failed to create pipe"
OsPipe(i) ==
    /\ pc[i] = "pipe"
    /\ \/ /\ wOpen' = [wOpen EXCEPT ![i] = TRUE]
          /\ rOpen' = [rOpen EXCEPT ![i] = TRUE]
          /\ pc' = [pc EXCEPT ![i] = "save"]
          /\ UNCHANGED result
       \/ /\ result' = [result EXCEPT ![i] =
                          [output |-> <<>>, exitCode |-> 1, err |-> ErrPipe]]
          /\ pc' = [pc EXCEPT ![i] =
                      IF inv[i].kind = "AttachWithOutput" THEN "returned" ELSE "wrap"]
          /\ UNCHANGED <<wOpen, rOpen>>
    /\ UNCHANGED <<wres, inv, args, cmdArgs, callRes, osStdout, oldStdout, pipeBuf,
                   rpc, rbuf, outputChan, output, fd1, nativeArgv, nativeOut,
                   nativeRet, printTo, printQ>>

\* oldStdout := os.Stdout
SaveStdout(i) ==
    /\ pc[i] = "save"
    /\ oldStdout' = [oldStdout EXCEPT ![i] = osStdout]
    /\ pc' = [pc EXCEPT ![i] = "redirect"]
    /\ UNCHANGED <<wres, inv, args, cmdArgs, callRes, osStdout, wOpen, rOpen, pipeBuf,
                   rpc, rbuf, outputChan, output, result, fd1, nativeArgv,
                   nativeOut, nativeRet, printTo, printQ>>

\* os.Stdout = w
RedirectStdout(i) ==
    /\ pc[i] = "redirect"
    /\ osStdout' = W(i)
    /\ pc' = [pc EXCEPT ![i] = "go"]
    /\ UNCHANGED <<wres, inv, args, cmdArgs, callRes, oldStdout, wOpen, rOpen, pipeBuf,
                   rpc, rbuf, outputChan, output, result, fd1, nativeArgv,
                   nativeOut, nativeRet, printTo, printQ>>

\* outputChan := make(chan string, 1); go func() { ... }()
StartReader(i) ==
    /\ pc[i] = "go"
    /\ rpc' = [rpc EXCEPT ![i] = "copy"]
    /\ pc' = [pc EXCEPT ![i] = "build"]
    /\ UNCHANGED <<wres, inv, args, cmdArgs, callRes, osStdout, oldStdout, wOpen, rOpen,
                   pipeBuf, rbuf, outputChan, output, result, fd1, nativeArgv,
                   nativeOut, nativeRet, printTo, printQ>>

\* cmdArgs := append([]string{string(cmd)}, args...)
BuildRequest(i) ==
    /\ pc[i] = "build"
    /\ cmdArgs' = [cmdArgs EXCEPT ![i] = BuildCmdArgs(inv[i].cmd, args[i])]
    /\ pc' = [pc EXCEPT ![i] = "call"]
    /\ UNCHANGED <<wres, inv, args, callRes, osStdout, oldStdout, wOpen, rOpen, pipeBuf,
                   rpc, rbuf, outputChan, output, result, fd1, nativeArgv,
                   nativeOut, nativeRet, printTo, printQ>>

\* callJattach(pid, cmdArgs, true): the two checks, then the C call
CallJattach(i) ==
    /\ pc[i] = "call"
    /\ IF ~PidValid(inv[i].pid)
       THEN /\ callRes' = [callRes EXCEPT ![i] = [exitCode |-> 1, err |-> ErrInvalidPID]]
            /\ pc' = [pc EXCEPT ![i] = AfterCall(inv[i].kind)]
            /\ UNCHANGED nativeArgv
       ELSE IF ~HasCommand(cmdArgs[i])
       THEN /\ callRes' = [callRes EXCEPT ![i] = [exitCode |-> 1, err |-> ErrNoCommand]]
            /\ pc' = [pc EXCEPT ![i] = AfterCall(inv[i].kind)]
            /\ UNCHANGED nativeArgv
       ELSE /\ nativeArgv' = [nativeArgv EXCEPT ![i] = CArgs(cmdArgs[i])]
            /\ pc' = [pc EXCEPT ![i] = "native"]
            /\ UNCHANGED callRes
    /\ UNCHANGED <<wres, inv, args, cmdArgs, osStdout, oldStdout, wOpen, rOpen, pipeBuf,
                   rpc, rbuf, outputChan, output, result, fd1, nativeOut,
                   nativeRet, printTo, printQ>>

\* The native routine relays one chunk of the target's output: print_output
\* is 1, and C stdio writes to file descriptor 1.
NativeRelay(i) ==
    /\ pc[i] = "native"
    /\ Len(nativeOut[i]) < MaxOut
    /\ nativeOut' = [nativeOut EXCEPT ![i] = Append(@, Chunk("cmd", i))]
    /\ fd1' = [fd1 EXCEPT ![Chunk("cmd", i)] = @ + 1]
    /\ UNCHANGED <<wres, inv, pc, args, cmdArgs, callRes, osStdout, oldStdout, wOpen,
                   rOpen, pipeBuf, rpc, rbuf, outputChan, output, result,
                   nativeArgv, nativeRet, printTo, printQ>>

\* The native routine fails locally and returns; CallJattach returns
\* int(ret), nil.  Only a malformed response can follow relayed output.
NativeLocalFailure(i) ==
    /\ pc[i] = "native"
    /\ \E f \in LocalFailures :
         /\ f = "MalformedResponse" \/ nativeOut[i] = <<>>
         /\ nativeRet' = [nativeRet EXCEPT ![i] = [kind |-> f, code |-> LocalFailureCode]]
    /\ callRes' = [callRes EXCEPT ![i] = CallJattachReturn(LocalFailureCode)]
    /\ pc' = [pc EXCEPT ![i] = AfterCall(inv[i].kind)]
    /\ UNCHANGED <<wres, inv, args, cmdArgs, osStdout, oldStdout, wOpen, rOpen, pipeBuf,
                   rpc, rbuf, outputChan, output, result, fd1, nativeArgv,
                   nativeOut, printTo, printQ>>

\* The target reports result code c; the native routine returns it and
\* CallJattach returns int(ret), nil.
NativeTargetResult(i) ==
    /\ pc[i] = "native"
    /\ \E c \in TargetCodes :
         /\ nativeRet' = [nativeRet EXCEPT ![i] = [kind |-> "target", code |-> c]]
         /\ callRes' = [callRes EXCEPT ![i] = CallJattachReturn(c)]
    /\ pc' = [pc EXCEPT ![i] = AfterCall(inv[i].kind)]
    /\ UNCHANGED <<wres, inv, args, cmdArgs, osStdout, oldStdout, wOpen, rOpen, pipeBuf,
                   rpc, rbuf, outputChan, output, result, fd1, nativeArgv,
                   nativeOut, printTo, printQ>>

\* Attach: return callJattach(pid, cmdArgs, true)
AttachReturn(i) ==
    /\ pc[i] = "ret"
    /\ ~IsCapture(i)
    /\ result' = [result EXCEPT ![i] =
                    [output |-> <<>>, exitCode |-> callRes[i].exitCode,
                     err |-> callRes[i].err]]
    /\ pc' = [pc EXCEPT ![i] = IF inv[i].kind = "Attach" THEN "returned" ELSE "done"]
    /\ UNCHANGED <<wres, inv, args, cmdArgs, callRes, osStdout, oldStdout, wOpen, rOpen,
                   pipeBuf, rpc, rbuf, outputChan, output, fd1, nativeArgv,
                   nativeOut, nativeRet, printTo, printQ>>

\* w.Close()
CloseWrite(i) ==
    /\ pc[i] = "closeW"
    /\ wOpen' = [wOpen EXCEPT ![i] = FALSE]
    /\ pc' = [pc EXCEPT ![i] = "recv"]
    /\ UNCHANGED <<wres, inv, args, cmdArgs, callRes, osStdout, oldStdout, rOpen,
                   pipeBuf, rpc, rbuf, outputChan, output, result, fd1,
                   nativeArgv, nativeOut, nativeRet, printTo, printQ>>

\* output := <-outputChan
ReceiveOutput(i) ==
    /\ pc[i] = "recv"
    /\ outputChan[i] # <<>>
    /\ output' = [output EXCEPT ![i] = Head(outputChan[i])]
    /\ outputChan' = [outputChan EXCEPT ![i] = Tail(@)]
    /\ pc' = [pc EXCEPT ![i] = "closeR"]
    /\ UNCHANGED <<wres, inv, args, cmdArgs, callRes, osStdout, oldStdout, wOpen, rOpen,
                   pipeBuf, rpc, rbuf, result, fd1, nativeArgv, nativeOut,
                   nativeRet, printTo, printQ>>

\* r.Close()
CloseRead(i) ==
    /\ pc[i] = "closeR"
    /\ rOpen' = [rOpen EXCEPT ![i] = FALSE]
    /\ pc' = [pc EXCEPT ![i] = "ret"]
    /\ UNCHANGED <<wres, inv, args, cmdArgs, callRes, osStdout, oldStdout, wOpen,
                   pipeBuf, rpc, rbuf, outputChan, output, result, fd1,
                   nativeArgv, nativeOut, nativeRet, printTo, printQ>>

\* return output, exitCode, err; the deferred func sets os.Stdout = oldStdout
AttachWithOutputReturn(i) ==
    /\ pc[i] = "ret"
    /\ IsCapture(i)
    /\ result' = [result EXCEPT ![i] =
                    [output |-> output[i], exitCode |-> callRes[i].exitCode,
                     err |-> callRes[i].err]]
    /\ osStdout' = oldStdout[i]
    /\ pc' = [pc EXCEPT ![i] =
                IF inv[i].kind = "AttachWithOutput" THEN "returned" ELSE "wrap"]
    /\ UNCHANGED <<wres, inv, args, cmdArgs, callRes, oldStdout, wOpen, rOpen, pipeBuf,
                   rpc, rbuf, outputChan, output, fd1, nativeArgv, nativeOut,
                   nativeRet, printTo, printQ>>

\* reader goroutine, io.Copy(&buf, r): one read that returns data
ReaderCopy(i) ==
    /\ rpc[i] = "copy"
    /\ pipeBuf[i] # <<>>
    /\ rbuf' = [rbuf EXCEPT ![i] = Append(@, Head(pipeBuf[i]))]
    /\ pipeBuf' = [pipeBuf EXCEPT ![i] = Tail(@)]
    /\ UNCHANGED <<wres, inv, pc, args, cmdArgs, callRes, osStdout, oldStdout, wOpen,
                   rOpen, rpc, outputChan, output, result, fd1, nativeArgv,
                   nativeOut, nativeRet, printTo, printQ>>

\* reader goroutine: the read returns end-of-stream, io.Copy returns
ReaderEOF(i) ==
    /\ rpc[i] = "copy"
    /\ pipeBuf[i] = <<>>
    /\ ~wOpen[i]
    /\ rpc' = [rpc EXCEPT ![i] = "send"]
    /\ UNCHANGED <<wres, inv, pc, args, cmdArgs, callRes, osStdout, oldStdout, wOpen,
                   rOpen, pipeBuf, rbuf, outputChan, output, result, fd1,
                   nativeArgv, nativeOut, nativeRet, printTo, printQ>>

\* reader goroutine: outputChan <- buf.String()
ReaderSend(i) ==
    /\ rpc[i] = "send"
    /\ Len(outputChan[i]) < 1
    /\ outputChan' = [outputChan EXCEPT ![i] = Append(@, rbuf[i])]
    /\ rpc' = [rpc EXCEPT ![i] = "done"]
    /\ UNCHANGED <<wres, inv, pc, args, cmdArgs, callRes, osStdout, oldStdout, wOpen,
                   rOpen, pipeBuf, rbuf, output, result, fd1, nativeArgv,
                   nativeOut, nativeRet, printTo, printQ>>

\* A fmt.Printf / fmt.Println of the host program, such as the example
\* callers' after a call that returned no error: the text is formatted and
\* os.Stdout is read once.
ExamplePrint(i) ==
    /\ \/ pc[i] = "returned" /\ result[i].err = Nil
       \/ pc[i] = "print"
    /\ printQ' = [printQ EXCEPT ![i] = PrintText(i)]
    /\ printTo' = [printTo EXCEPT ![i] = osStdout]
    /\ pc' = [pc EXCEPT ![i] = IF PrintText(i) = <<>> THEN "done" ELSE "write"]
    /\ UNCHANGED <<wres, inv, args, cmdArgs, callRes, osStdout, oldStdout, wOpen, rOpen,
                   pipeBuf, rpc, rbuf, outputChan, output, result, fd1,
                   nativeArgv, nativeOut, nativeRet>>

\* The File.Write of that print: to the original stream, into a pipe with
\* room (it blocks while the pipe is full), or failing on a closed file.
PrintWrite(i) ==
    /\ pc[i] = "write"
    /\ LET t == printTo[i]
           p == t[2]
           c == Head(printQ[i])
           rest == Tail(printQ[i])
       IN  IF t = Orig
           THEN /\ fd1' = [fd1 EXCEPT ![c] = @ + 1]
                /\ printQ' = [printQ EXCEPT ![i] = rest]
                /\ pc' = [pc EXCEPT ![i] = IF rest = <<>> THEN "done" ELSE "write"]
                /\ UNCHANGED pipeBuf
           ELSE IF ~wOpen[p]
           THEN /\ printQ' = [printQ EXCEPT ![i] = <<>>]
                /\ pc' = [pc EXCEPT ![i] = "done"]
                /\ UNCHANGED <<fd1, pipeBuf>>
           ELSE /\ Len(pipeBuf[p]) < PipeCap
                /\ pipeBuf' = [pipeBuf EXCEPT ![p] = Append(@, c)]
                /\ printQ' = [printQ EXCEPT ![i] = rest]
                /\ pc' = [pc EXCEPT ![i] = IF rest = <<>> THEN "done" ELSE "write"]
                /\ UNCHANGED fd1
    /\ UNCHANGED <<wres, inv, args, cmdArgs, callRes, osStdout, oldStdout, wOpen, rOpen,
                   rpc, rbuf, outputChan, output, result, nativeArgv, nativeOut,
                   nativeRet, printTo>>

\* a convenience wrapper maps what AttachWithOutput returned and returns
WrapperReturn(i) ==
    /\ pc[i] = "wrap"
    /\ wres' = [wres EXCEPT ![i] = WrapResult(inv[i].kind, result[i])]
    /\ pc' = [pc EXCEPT ![i] = "done"]
    /\ UNCHANGED <<inv, args, cmdArgs, callRes, osStdout, oldStdout, wOpen, rOpen,
                   pipeBuf, rpc, rbuf, outputChan, output, result, fd1,
                   nativeArgv, nativeOut, nativeRet, printTo, printQ>>

CallerStep(i) ==
    \/ WrapperReturn(i)
    \/ LoadAgent(i) \/ OsPipe(i) \/ SaveStdout(i) \/ RedirectStdout(i)
    \/ StartReader(i) \/ BuildRequest(i) \/ CallJattach(i)
    \/ AttachReturn(i) \/ CloseWrite(i) \/ ReceiveOutput(i) \/ CloseRead(i)
    \/ AttachWithOutputReturn(i) \/ ExamplePrint(i) \/ PrintWrite(i)
NativeStep(i) == NativeRelay(i) \/ NativeLocalFailure(i) \/ NativeTargetResult(i)
ReaderStep(i) == ReaderCopy(i) \/ ReaderEOF(i) \/ ReaderSend(i)

Next ==
    \E i \in Calls :
        \/ LoadAgent(i)
        \/ OsPipe(i)
        \/ SaveStdout(i)
        \/ RedirectStdout(i)
        \/ StartReader(i)
        \/ BuildRequest(i)
        \/ CallJattach(i)
        \/ NativeRelay(i)
        \/ NativeLocalFailure(i)
        \/ NativeTargetResult(i)
        \/ AttachReturn(i)
        \/ CloseWrite(i)
        \/ ReceiveOutput(i)
        \/ CloseRead(i)
        \/ AttachWithOutputReturn(i)
        \/ ReaderCopy(i)
        \/ ReaderEOF(i)
        \/ ReaderSend(i)
        \/ ExamplePrint(i)
        \/ PrintWrite(i)
        \/ WrapperReturn(i)

\* The Go scheduler runs every runnable goroutine, and the native routine
\* is taken to return.
Fairness ==
    \A i \in Calls :
        /\ WF_vars(CallerStep(i))
        /\ WF_vars(NativeStep(i))
        /\ WF_vars(ReaderStep(i))

Spec == Init /\ [][Next]_vars
SpecSeq == InitSeq /\ [][Next]_vars
SpecFair == Init /\ [][Next]_vars /\ Fairness

\* ------------------------------------------------------------- claims
IsCall(i) == inv[i].kind # "Println"
\* the goroutine is inside its call: it has not returned to its caller
InCall(i) == IsCall(i) /\ ~Returned(i)
\* callJattach has returned to Attach / AttachWithOutput
CallDone(i) == callRes[i].err # "pending"
\* the number of arguments after the command field
ArgCount(i) ==
    IF inv[i].kind = "callJattach" THEN Len(inv[i].args) - 1
    ELSE IF inv[i].kind \in WrapperKinds THEN Len(args[i])
    ELSE Len(inv[i].args)
\* the fields the native routine reads from argv
NativeFields(i) == [k \in 1..nativeArgv[i].argc |-> CStr(nativeArgv[i].argv[k])]

\* C1: a call with processId <= 0 never enters the native attach routine,
\* callJattach answers it with the invalid-PID error, and the call returns
\* a non-nil error.
C1_InvalidPidRejected ==
    \A i \in Calls :
        (IsCall(i) /\ inv[i].pid <= 0) =>
            /\ ~NativeEntered(i)
            /\ pc[i] # "native"
            /\ nativeOut[i] = <<>>
            /\ CallDone(i) => callRes[i] = [exitCode |-> 1, err |-> ErrInvalidPID]
            /\ Returned(i) => result[i].err \in {ErrInvalidPID, ErrPipe}
C1_Witness ==
    \E i \in Calls :
        /\ inv[i].kind = "AttachWithOutput"
        /\ inv[i].pid <= 0
        /\ Returned(i)
        /\ result[i].err = ErrInvalidPID

\* C2: an empty field list with pid > 0 is answered by a non-nil error
\* without entering the native routine, so the native routine is only ever
\* entered with at least one field.
C2_NoCommandRejected ==
    \A i \in Calls :
        /\ NativeEntered(i) => nativeArgv[i].argc >= 1
        /\ (inv[i].kind = "callJattach" /\ inv[i].pid > 0 /\ inv[i].args = <<>>) =>
              /\ ~NativeEntered(i)
              /\ pc[i] # "native"
              /\ CallDone(i) => callRes[i] = [exitCode |-> 1, err |-> ErrNoCommand]
              /\ Returned(i) => result[i].err = ErrNoCommand
C2_Witness ==
    \E i \in Calls :
        /\ inv[i].kind = "callJattach"
        /\ inv[i].pid > 0
        /\ inv[i].args = <<>>
        /\ Returned(i)
        /\ result[i].err = ErrNoCommand

\* C3: for Attach / AttachWithOutput with valid pid and command, the exit
\* code returned is the target-reported result, unless the native routine
\* failed locally, and then a non-nil error is returned.
C3_LocalFailureIsError ==
    \A i \in Calls :
        (inv[i].kind \in {"Attach", "AttachWithOutput"} /\ Returned(i)
            /\ NativeEntered(i)) =>
            /\ nativeRet[i].kind = "target" =>
                  result[i].exitCode = nativeRet[i].code /\ result[i].err = Nil
            /\ nativeRet[i].kind \in LocalFailures => result[i].err # Nil

\* C4: a call with more arguments than the protocol has argument slots
\* never enters the native routine and returns a non-nil error.
C4_ExcessArgsRejected ==
    \A i \in Calls :
        (IsCall(i) /\ ArgCount(i) > MaxArgSlots) =>
            /\ ~NativeEntered(i)
            /\ Returned(i) => result[i].err # Nil

\* C5: the text AttachWithOutput returns is exactly the output the native
\* routine produced during the call, and none of it reached the original
\* standard output (stated for the calls the target answered with a result
\* code, where no local failure is involved).
C5_OutputCaptured ==
    \A i \in Calls :
        (inv[i].kind = "AttachWithOutput" /\ Returned(i)
            /\ nativeRet[i].kind = "target") =>
            /\ result[i].output = nativeOut[i]
            /\ fd1[Chunk("cmd", i)] = 0

\* C6: a non-zero result code the target reports is returned as the exit
\* code with a nil error, and AttachWithOutput returns with it the output
\* its reader collected.
C6_TargetCodeIsData ==
    \A i \in Calls :
        (inv[i].kind \in {"Attach", "AttachWithOutput"} /\ Returned(i)
            /\ nativeRet[i].kind = "target" /\ nativeRet[i].code # 0) =>
            /\ result[i].exitCode = nativeRet[i].code
            /\ result[i].err = Nil
            /\ inv[i].kind = "AttachWithOutput" => result[i].output = rbuf[i]
C6_Witness ==
    \E i \in Calls :
        /\ inv[i].kind = "AttachWithOutput"
        /\ Returned(i)
        /\ nativeRet[i] = [kind |-> "target", code |-> 2]
        /\ result[i].exitCode = 2

\* C7: concurrent calls for different process ids share no mutable state:
\* no call observes a stream another call installed, and the text a call
\* returns holds only the output of its own command.
C7_NoSharedState ==
    \A i \in Calls : \A j \in Calls \ {i} :
        (IsCall(i) /\ IsCall(j) /\ inv[i].pid # inv[j].pid) =>
            /\ oldStdout[i] # W(j)
            /\ (IsCapture(i) /\ Returned(i)) =>
                  \A k \in 1..Len(result[i].output) :
                      result[i].output[k] = Chunk("cmd", i)

\* C8: once every call has returned, os.Stdout is the stream it was before
\* the calls started.
C8_StdoutRestored ==
    (\A i \in Calls : ~InCall(i)) => osStdout = Orig

\* C9: every AttachWithOutput call eventually returns, and when it has
\* returned its reader has delivered its one result and finished, and both
\* ends of its pipe are closed (no pipe and no reader exist when the pipe
\* could not be created).
C9_NoDeadlock ==
    /\ \A i \in Calls : IsCapture(i) => <>Returned(i)
    /\ [](\A i \in Calls :
            (IsCapture(i) /\ Returned(i)) =>
                /\ ~wOpen[i] /\ ~rOpen[i]
                /\ outputChan[i] = <<>>
                /\ pipeBuf[i] = <<>>
                /\ IF result[i].err = ErrPipe THEN rpc[i] = "none"
                   ELSE rpc[i] = "done" /\ result[i].output = rbuf[i])
C9_Witness ==
    \E i \in Calls :
        /\ IsCapture(i)
        /\ Returned(i)
        /\ rpc[i] = "done"
        /\ Len(result[i].output) > PipeCap

\* C10: the request handed on by Attach and AttachWithOutput is the command
\* name followed by the caller's arguments in their order, the caller's
\* list is left as it was, and the native routine reads exactly these
\* fields; for LoadAgent the fields are load, agentPath, "true" or "false"
\* by the absolute flag, and options when it is not empty.
C10_RequestFields ==
    \A i \in Calls :
        LET want ==
              IF inv[i].kind = "LoadAgent"
              THEN <<Load, inv[i].agentPath,
                     IF inv[i].absolute THEN "true" ELSE "false">>
                   \o (IF inv[i].options = "" THEN <<>> ELSE <<inv[i].options>>)
              ELSE <<inv[i].cmd>> \o inv[i].args
        IN  inv[i].kind \in {"Attach", "AttachWithOutput", "LoadAgent"} =>
              /\ inv[i].kind # "LoadAgent" => args[i] = inv[i].args
              /\ (CallDone(i) \/ pc[i] \in {"call", "native"}) =>
                    /\ cmdArgs[i] = want
                    /\ Len(cmdArgs[i]) = 1 + Len(args[i])
              /\ NativeEntered(i) => NativeFields(i) = want
C10_Witness ==
    \E i \in Calls :
        /\ inv[i].kind = "Attach"
        /\ NativeEntered(i)
        /\ Len(inv[i].args) >= 2
        /\ inv[i].args[1] # inv[i].args[2]
        /\ NativeFields(i) = <<inv[i].cmd>> \o inv[i].args

\* C11: a convenience wrapper returns a nil error exactly when
\* AttachWithOutput returned a nil error and exit code 0; a non-nil error of
\* AttachWithOutput is returned unchanged; a non-zero exit code becomes a new
\* error that names the command sent and the code; and with either error
\* the output returned is empty.
C11_WrapperResult ==
    \A i \in Calls :
        (inv[i].kind \in WrapperKinds /\ wres[i] # NoWres) =>
            /\ Returned(i)
            /\ (wres[i].err = Nil) <=>
                  (result[i].err = Nil /\ result[i].exitCode = 0)
            /\ result[i].err # Nil => wres[i].err = result[i].err
            /\ (result[i].err = Nil /\ result[i].exitCode # 0) =>
                  /\ wres[i].err = ErrExit
                  /\ wres[i].cmd = cmdArgs[i][1]
                  /\ wres[i].code = result[i].exitCode
            /\ wres[i].err # Nil => wres[i].output = <<>>
C11_Witness ==
    \E i \in Calls :
        /\ inv[i].kind \in OutputWrappers
        /\ result[i].err = Nil
        /\ result[i].exitCode # 0
        /\ result[i].output # <<>>
        /\ wres[i].err = ErrExit
        /\ wres[i].output = <<>>

====
